---- MODULE Spec2Model ----
(***************************************************************************)
(* Model of pwrusbctl's PowerUsbDevice (src/src/power_usb_device.{h,cc}):  *)
(* one device session, the HIDAPI calls it makes, and the values it        *)
(* decodes.  A caller invokes the public methods in any order and then     *)
(* destroys the object.  HIDAPI is the environment: every hid_write and    *)
(* hid_read returns -1 or a number of bytes transferred between 0 and the  *)
(* length asked for.                                                       *)
(*                                                                         *)
(* A second specification, MainSpec, is the command-line tool              *)
(* (src/src/main.cpp): main() from the parsed arguments to the end of the  *)
(* process, calling the same methods.                                      *)
(***************************************************************************)
EXTENDS Integers, Sequences, FiniteSets, TLC

VARIABLES
  device_,   \* PowerUsbDevice::device_: "nullptr" or the handle hid_open gave
  NDEBUG,    \* whether the build defines NDEBUG (assert compiled out)
  phase,     \* "alive", "destroyed", "aborted" (assert failed), "crashed"
  history,   \* the HIDAPI functions called so far, in order
  calls,     \* number of method calls made on the object
  last,      \* the last method call: arguments, HIDAPI calls, result
  pc,        \* main()'s position; "caller" when the caller is not main()
  args,      \* the outlet arguments TCLAP parsed (isSet() and getValue())
  config,    \* main()'s LoggingConfig, once built
  log_i      \* LogStats' loop counter i

mainVars == <<pc, args, config, log_i>>
vars == <<device_, NDEBUG, phase, history, calls, last, pc, args, config, log_i>>

----------------------------------------------------------------------------
(* Bounds of the model. *)

\* Method calls made on one session before it is destroyed.
MaxCalls == 2
\* Outlet indices passed by the caller range over 0..MaxIndex.
MaxIndex == 4
\* Raw device-type bytes the device answers with: 0..MaxRawType, and the
\* bytes around the sign bit and the top of the range.
MaxRawType == 7
\* Iterations of LogStats' loop the model follows, and the largest
\* --log_count given.
MaxLogs == 2
\* main() looks at the answers only to print them: under MainSpec the device
\* answers from smaller sets.
InProgram == pc /= "caller"
TypeSamples ==
  IF InProgram THEN {0, 1}
  ELSE (0..MaxRawType) \cup {127, 128, 254, 255}
\* Byte values the device answers with in the 2-byte read, and in the most
\* significant byte of the 4-byte read.
ByteSamples == IF InProgram THEN {255} ELSE {0, 1, 127, 128, 255}
\* Byte values of the three lower bytes of the 4-byte read.
LowSamples == IF InProgram THEN {255} ELSE {1, 255}
\* Every value of a uint8_t.
Byte == 0..255

----------------------------------------------------------------------------
(* Constants and tables of power_usb_device.cc. *)

kSocketCount == 3
kGetDeviceTypeCommand == 170
kGetInstantaneousCurrentCommand == 177
kGetAccumulatedEnergyCommand == 178
kResetChargeAccumulatorCommand == 179

\* C++ arrays are indexed from 0, TLA+ sequences from 1.
kDeviceTypes == <<"Basic", "Digital IO", "Watchdog", "Smart">>
kSetPowerOffCommands == <<66, 68, 80>>
kSetPowerOnCommands == <<65, 67, 69>>
kSetDefaultPowerOffCommands == <<70, 81, 72>>
kSetDefaultPowerOnCommands == <<78, 71, 79>>

SocketState == {"Off", "On"}

\* tbl[index] in C++.  Reading past the end of the array is undefined
\* behaviour: any byte may come back.
ArrayAt(tbl, index) ==
  IF index < Len(tbl) THEN {tbl[index + 1]} ELSE Byte

----------------------------------------------------------------------------
(* HIDAPI as the session sees it. *)

NoDevice == "nullptr"
Handle == "hid_device"

\* hid_write/hid_read on a null handle dereference it: undefined behaviour,
\* which may crash the process or return anything.
CrashChoices == IF device_ = NoDevice THEN BOOLEAN ELSE {FALSE}

\* One hid_write(device_, buffer, length) call and what it returned.
HidWrite(buffer) ==
  { [fn |-> "hid_write", dev |-> device_, buf |-> buffer, len |-> Len(buffer),
     ret |-> r, crash |-> c] :
      <<r, c>> \in { rc \in (-1..Len(buffer)) \X CrashChoices :
                       rc[2] => rc[1] = -1 } }

\* The buffers a read of `length` bytes may leave behind.  Bytes beyond the
\* returned count are whatever the uninitialized stack buffer held.
Buffers(length) ==
  IF length = 1 THEN [1..1 -> TypeSamples]
  ELSE IF length = 2 THEN [1..2 -> ByteSamples]
  ELSE { <<b0, b1, b2, b3>> :
           b0 \in ByteSamples, b1 \in LowSamples,
           b2 \in LowSamples, b3 \in LowSamples }

\* One hid_read(device_, buffer, length) call: its return value and the
\* buffer contents afterwards (<< >> when nothing was delivered).
HidRead(length) ==
  { [fn |-> "hid_read", dev |-> device_, buf |-> b, len |-> length,
     ret |-> r, crash |-> FALSE] :
      <<r, b>> \in (0..length) \X Buffers(length) }
  \cup
  { [fn |-> "hid_read", dev |-> device_, buf |-> << >>, len |-> length,
     ret |-> -1, crash |-> c] : c \in CrashChoices }

----------------------------------------------------------------------------
(* Pure parts of PowerUsbDevice. *)

IsInitialized == device_ /= NoDevice

GetSocketCount == kSocketCount

\* bool DeviceWrite(): state != -1, for the hid_write call w.
DeviceWrite_IgnoreError(w) == TRUE
DeviceWrite(w) == w.ret /= -1

\* bool DeviceRead(): state != -1, for the hid_read call r.
DeviceRead(r) == r.ret /= -1

\* device_type-- on a uint8_t; > 3 gives nullptr; else kDeviceTypes[...].
DecodeDeviceType_NoDecrement(raw) ==
  IF raw > 3 THEN "nullptr" ELSE kDeviceTypes[raw + 1]
DecodeDeviceType(raw) ==
  LET device_type == (raw - 1) % 256
  IN  IF device_type > 3 THEN "nullptr" ELSE kDeviceTypes[device_type + 1]

\* Conversion of an int to int16_t: two's complement, modulo 2^16.
ToInt16(v) ==
  LET m == v % 65536
  IN  IF m >= 32768 THEN m - 65536 ELSE m

\* *current = (current_buffer[0] << 8) | current_buffer[1];
\* the two operands of | share no bit, so | is +.
DecodeCurrent_LittleEndian(buf) == ToInt16(buf[2] * 256 + buf[1])
DecodeCurrent(buf) == ToInt16(buf[1] * 256 + buf[2])

\* b << 24 for a uint8_t b promoted to int: bit 7 of b lands on the sign
\* bit, so the result is (b - 256) * 2^24 when b >= 128.  (The model's
\* integers are 32 bits wide, so the shift is written in its signed form.)
ShiftLeft24(b) == (IF b >= 128 THEN b - 256 ELSE b) * 16777216

\* *accumulated_charge = (b[0] << 24) | (b[1] << 16) | (b[2] << 8) | b[3];
\* the operands of | share no bit, so | is +.
DecodeCharge_LittleEndian(buf) ==
  ShiftLeft24(buf[4]) + buf[3] * 65536 + buf[2] * 256 + buf[1]
DecodeCharge(buf) ==
  ShiftLeft24(buf[1]) + buf[2] * 65536 + buf[3] * 256 + buf[4]

\* index >= kSocketCount, the test that rejects an outlet index.
IndexOutOfRange_OffByOne(index) == index > kSocketCount
IndexOutOfRange(index) == index >= kSocketCount

\* The command byte SetSocketState selects.
SocketCommand_Swapped(index, state) ==
  IF state = "On" THEN ArrayAt(kSetPowerOffCommands, index)
                  ELSE ArrayAt(kSetPowerOnCommands, index)
SocketCommand(index, state) ==
  IF state = "On" THEN ArrayAt(kSetPowerOnCommands, index)
                  ELSE ArrayAt(kSetPowerOffCommands, index)

\* The command byte SetDefaultSocketState selects.
DefaultSocketCommand_Immediate(index, state) ==
  IF state = "On" THEN ArrayAt(kSetPowerOnCommands, index)
                  ELSE ArrayAt(kSetPowerOffCommands, index)
DefaultSocketCommand(index, state) ==
  IF state = "On" THEN ArrayAt(kSetDefaultPowerOnCommands, index)
                  ELSE ArrayAt(kSetDefaultPowerOffCommands, index)

----------------------------------------------------------------------------
(* The state machine. *)

\* A TCLAP ValueArg<size_t> that was not given: isSet() false, getValue()
\* the default 0.
NotGiven == [set |-> FALSE, value |-> 0]
NoArgs ==
  [outlet_default_enable |-> NotGiven, outlet_default_disable |-> NotGiven,
   outlet_enable |-> NotGiven, outlet_disable |-> NotGiven]
NoConfig ==
  [log_current |-> FALSE, log_power |-> FALSE, log_energy |-> FALSE,
   log_indefinitely |-> FALSE, log_count |-> 0]

NoCall ==
  [op |-> "none", index |-> 0, state |-> "none", argNull |-> FALSE,
   io |-> << >>, ret |-> "none", out |-> << >>]

\* PowerUsbDevice(): device_ = hid_open(kVendorId, kProductId, nullptr).
Init ==
  /\ device_ \in {NoDevice, Handle}
  /\ NDEBUG \in BOOLEAN
  /\ phase = "alive"
  /\ history = <<"hid_open">>
  /\ calls = 0
  /\ last = NoCall
  /\ pc = "caller"
  /\ args = NoArgs
  /\ config = NoConfig
  /\ log_i = 0

\* A method is called on a live object; MaxCalls bounds the calls of the
\* arbitrary caller, main() makes the calls its code makes.
CanCall == phase = "alive" /\ (pc = "caller" => calls < MaxCalls)

\* The end of a method call: what it did and what the caller got back.
\* ret is "noreturn" when the process died inside the call.
Done(op, index, state, argNull, io, ret, out) ==
  LET died == io /= << >> /\ io[Len(io)].crash
  IN  /\ last' = [op |-> op, index |-> index, state |-> state,
                  argNull |-> argNull, io |-> io,
                  ret |-> IF died THEN "noreturn" ELSE ret,
                  out |-> IF died THEN << >> ELSE out]
      /\ history' = history \o [i \in 1..Len(io) |-> io[i].fn]
      /\ phase' = IF died THEN "crashed"
                  ELSE IF ret = "noreturn" THEN "aborted" ELSE "alive"
      /\ calls' = calls + 1
      /\ UNCHANGED <<device_, NDEBUG>>

\* A failed assert(): abort() in a build without NDEBUG.
AssertFails(op, index, state, argNull) ==
  /\ ~NDEBUG
  /\ Done(op, index, state, argNull, << >>, "noreturn", << >>)

Bool(b) == IF b THEN "true" ELSE "false"

GetDeviceType ==
  /\ CanCall
  /\ \E w \in HidWrite(<<kGetDeviceTypeCommand>>) :
       \/ /\ w.crash \/ ~DeviceWrite(w)
          /\ Done("GetDeviceType", 0, "none", FALSE, <<w>>, "nullptr", << >>)
       \/ /\ ~w.crash /\ DeviceWrite(w)
          /\ \E r \in HidRead(1) :
               Done("GetDeviceType", 0, "none", FALSE, <<w, r>>,
                    IF r.crash \/ ~DeviceRead(r) THEN "nullptr"
                    ELSE DecodeDeviceType(r.buf[1]),
                    << >>)

SetSocketState(index, state) ==
  /\ CanCall
  /\ \/ /\ IndexOutOfRange(index)
        /\ AssertFails("SetSocketState", index, state, FALSE)
     \/ /\ IndexOutOfRange(index)
        /\ NDEBUG
        /\ Done("SetSocketState", index, state, FALSE, << >>, "false", << >>)
     \/ /\ ~IndexOutOfRange(index)
        /\ \E command_value \in SocketCommand(index, state) :
             \E w \in HidWrite(<<command_value>>) :
               Done("SetSocketState", index, state, FALSE, <<w>>,
                    Bool(DeviceWrite(w)), << >>)

SetDefaultSocketState(index, state) ==
  /\ CanCall
  /\ \/ /\ IndexOutOfRange(index)
        /\ AssertFails("SetDefaultSocketState", index, state, FALSE)
     \/ /\ IndexOutOfRange(index)
        /\ NDEBUG
        /\ Done("SetDefaultSocketState", index, state, FALSE, << >>,
                "false", << >>)
     \/ /\ ~IndexOutOfRange(index)
        /\ \E command_value \in DefaultSocketCommand(index, state) :
             \E w \in HidWrite(<<command_value>>) :
               Done("SetDefaultSocketState", index, state, FALSE, <<w>>,
                    Bool(DeviceWrite(w)), << >>)

GetInstantaneousCurrent(argNull) ==
  /\ CanCall
  /\ \/ /\ argNull
        /\ AssertFails("GetInstantaneousCurrent", 0, "none", argNull)
     \/ /\ argNull
        /\ NDEBUG
        /\ Done("GetInstantaneousCurrent", 0, "none", argNull, << >>,
                "false", << >>)
     \/ /\ ~argNull
        /\ \E w \in HidWrite(<<kGetInstantaneousCurrentCommand>>) :
             \/ /\ w.crash \/ ~DeviceWrite(w)
                /\ Done("GetInstantaneousCurrent", 0, "none", argNull, <<w>>,
                        "false", << >>)
             \/ /\ ~w.crash /\ DeviceWrite(w)
                /\ \E r \in HidRead(2) :
                     IF r.crash \/ ~DeviceRead(r)
                     THEN Done("GetInstantaneousCurrent", 0, "none", argNull,
                               <<w, r>>, "false", << >>)
                     ELSE Done("GetInstantaneousCurrent", 0, "none", argNull,
                               <<w, r>>, "true", <<DecodeCurrent(r.buf)>>)

GetAccumulatedCharge(argNull) ==
  /\ CanCall
  /\ \/ /\ argNull
        /\ AssertFails("GetAccumulatedCharge", 0, "none", argNull)
     \/ /\ argNull
        /\ NDEBUG
        /\ Done("GetAccumulatedCharge", 0, "none", argNull, << >>,
                "false", << >>)
     \/ /\ ~argNull
        /\ \E w \in HidWrite(<<kGetAccumulatedEnergyCommand>>) :
             \/ /\ w.crash \/ ~DeviceWrite(w)
                /\ Done("GetAccumulatedCharge", 0, "none", argNull, <<w>>,
                        "false", << >>)
             \/ /\ ~w.crash /\ DeviceWrite(w)
                /\ \E r \in HidRead(4) :
                     IF r.crash \/ ~DeviceRead(r)
                     THEN Done("GetAccumulatedCharge", 0, "none", argNull,
                               <<w, r>>, "false", << >>)
                     ELSE Done("GetAccumulatedCharge", 0, "none", argNull,
                               <<w, r>>, "true", <<DecodeCharge(r.buf)>>)

ResetChargeAccumulator_WrongCommand ==
  /\ CanCall
  /\ \E w \in HidWrite(<<kGetAccumulatedEnergyCommand>>) :
       Done("ResetChargeAccumulator", 0, "none", FALSE, <<w>>,
            Bool(DeviceWrite(w)), << >>)
ResetChargeAccumulator ==
  /\ CanCall
  /\ \E w \in HidWrite(<<kResetChargeAccumulatorCommand>>) :
       Done("ResetChargeAccumulator", 0, "none", FALSE, <<w>>,
            Bool(DeviceWrite(w)), << >>)

\* ~PowerUsbDevice(): if (IsInitialized()) hid_close(device_).
Destructor_CloseAlways ==
  /\ phase = "alive"
  /\ phase' = "destroyed"
  /\ history' = Append(history, "hid_close")
  /\ UNCHANGED <<device_, NDEBUG, calls, last>>
Destructor ==
  /\ phase = "alive"
  /\ phase' = "destroyed"
  /\ history' = IF IsInitialized THEN Append(history, "hid_close") ELSE history
  /\ UNCHANGED <<device_, NDEBUG, calls, last>>

Next ==
  \/ GetDeviceType /\ UNCHANGED mainVars
  \/ \E index \in 0..MaxIndex, state \in SocketState :
       SetSocketState(index, state) /\ UNCHANGED mainVars
  \/ \E index \in 0..MaxIndex, state \in SocketState :
       SetDefaultSocketState(index, state) /\ UNCHANGED mainVars
  \/ \E argNull \in BOOLEAN :
       GetInstantaneousCurrent(argNull) /\ UNCHANGED mainVars
  \/ \E argNull \in BOOLEAN :
       GetAccumulatedCharge(argNull) /\ UNCHANGED mainVars
  \/ ResetChargeAccumulator /\ UNCHANGED mainVars
  \/ Destructor /\ UNCHANGED mainVars

Spec == Init /\ [][Next]_vars

----------------------------------------------------------------------------
(* main() of src/src/main.cpp, from the return of cmd.parse(argc, argv).   *)
(* pc names the statement main() is at.  The four outlet arguments are     *)
(* kept as parsed; a switch that main() reads once is drawn where it is    *)
(* read.                                                                   *)

\* A ValueArg<size_t> after parsing: not given, or given with an index,
\* one of the outlets or the first index past them.
ValueArgs ==
  {NotGiven} \cup {[set |-> TRUE, value |-> v] : v \in 0..kSocketCount}

\* The state when cmd.parse() returns: no PowerUsbDevice yet.
InitMain ==
  /\ device_ = NoDevice
  /\ NDEBUG \in BOOLEAN
  /\ phase = "unconstructed"
  /\ history = << >>
  /\ calls = 0
  /\ last = NoCall
  /\ pc = "check_outlet_args"
  /\ args \in [outlet_default_enable : ValueArgs,
               outlet_default_disable : ValueArgs,
               outlet_enable : ValueArgs, outlet_disable : ValueArgs]
  /\ config = NoConfig
  /\ log_i = 0

\* Where main() goes after a method call: nowhere if the process died in
\* it, to CleanupAndAbort() if it reported failure, else on.
AfterCall(next) ==
  IF phase' /= "alive" THEN "dead"
  ELSE IF last'.ret \in {"false", "nullptr"} THEN "abort"
  ELSE next

\* A statement of main() that touches neither the device nor HIDAPI.
Goto(next) ==
  /\ pc' = next
  /\ UNCHANGED <<device_, NDEBUG, phase, history, calls, last>>

\* void CleanupAndAbort(): hid_exit(); exit(-1).  exit() does not run the
\* destructor of main()'s local `device`.
CleanupAndAbort ==
  /\ pc = "abort"
  /\ history' = Append(history, "hid_exit")
  /\ pc' = "exited"
  /\ UNCHANGED <<device_, NDEBUG, phase, calls, last, args, config, log_i>>

\* if (outlet_enable_arg.isSet() && outlet_disable_arg.isSet()) ...
MainCheckOutletArgs ==
  /\ pc = "check_outlet_args"
  /\ Goto(IF args.outlet_enable.set /\ args.outlet_disable.set
          THEN "abort" ELSE "check_default_args")
  /\ UNCHANGED <<args, config, log_i>>

\* if (outlet_default_enable_arg.isSet() && outlet_default_disable_arg.isSet())
MainCheckDefaultArgs ==
  /\ pc = "check_default_args"
  /\ Goto(IF args.outlet_default_enable.set /\ args.outlet_default_disable.set
          THEN "abort" ELSE "construct")
  /\ UNCHANGED <<args, config, log_i>>

\* PowerUsbDevice device;
MainConstruct ==
  /\ pc = "construct"
  /\ device_' \in {NoDevice, Handle}
  /\ phase' = "alive"
  /\ history' = Append(history, "hid_open")
  /\ pc' = "check_initialized"
  /\ UNCHANGED <<NDEBUG, calls, last, args, config, log_i>>

\* if (!device.IsInitialized()) ... CleanupAndAbort();
MainCheckInitialized ==
  /\ pc = "check_initialized"
  /\ Goto(IF IsInitialized THEN "device_info" ELSE "abort")
  /\ UNCHANGED <<args, config, log_i>>

\* if (print_device_info_arg.getValue()) PrintDeviceType(device);
MainPrintDeviceType ==
  /\ pc = "device_info"
  /\ \E print_device_info \in BOOLEAN :
       IF print_device_info
       THEN GetDeviceType /\ pc' = AfterCall("reset")
       ELSE Goto("reset")
  /\ UNCHANGED <<args, config, log_i>>

\* if (reset_charge_accumulator_arg.getValue()) ResetChargeAccumulator(device);
MainResetChargeAccumulator ==
  /\ pc = "reset"
  /\ \E reset_charge_accumulator \in BOOLEAN :
       IF reset_charge_accumulator
       THEN ResetChargeAccumulator /\ pc' = AfterCall("default_enable")
       ELSE Goto("default_enable")
  /\ UNCHANGED <<args, config, log_i>>

\* if (outlet_default_enable_arg.isSet()) {
\*   size_t outlet_index = outlet_enable_arg.getValue();
\*   SetDefaultSocketState(device, outlet_index, SocketState::On); }
MainDefaultEnable ==
  /\ pc = "default_enable"
  /\ IF args.outlet_default_enable.set
     THEN LET outlet_index == args.outlet_enable.value
          IN  /\ SetDefaultSocketState(outlet_index, "On")
              /\ pc' = AfterCall("default_disable")
     ELSE Goto("default_disable")
  /\ UNCHANGED <<args, config, log_i>>

\* if (outlet_default_disable_arg.isSet()) {
\*   size_t outlet_index = outlet_disable_arg.getValue();
\*   SetDefaultSocketState(device, outlet_index, SocketState::Off); }
MainDefaultDisable ==
  /\ pc = "default_disable"
  /\ IF args.outlet_default_disable.set
     THEN LET outlet_index == args.outlet_disable.value
          IN  /\ SetDefaultSocketState(outlet_index, "Off")
              /\ pc' = AfterCall("enable")
     ELSE Goto("enable")
  /\ UNCHANGED <<args, config, log_i>>

\* if (outlet_enable_arg.isSet()) { ... SetSocketState(..., SocketState::On); }
MainEnable ==
  /\ pc = "enable"
  /\ IF args.outlet_enable.set
     THEN LET outlet_index == args.outlet_enable.value
          IN  /\ SetSocketState(outlet_index, "On")
              /\ pc' = AfterCall("disable")
     ELSE Goto("disable")
  /\ UNCHANGED <<args, config, log_i>>

\* if (outlet_disable_arg.isSet()) { ... SetSocketState(..., SocketState::Off); }
MainDisable ==
  /\ pc = "disable"
  /\ IF args.outlet_disable.set
     THEN LET outlet_index == args.outlet_disable.value
          IN  /\ SetSocketState(outlet_index, "Off")
              /\ pc' = AfterCall("build_config")
     ELSE Goto("build_config")
  /\ UNCHANGED <<args, config, log_i>>

\* bool LoggingConfig::LogsEnabled() const
LogsEnabled(c) == c.log_current \/ c.log_power \/ c.log_energy

\* LoggingConfig logging_config; ... if (logging_config.LogsEnabled())
\*   LogStats(device, logging_config);   (i = 0 on entry)
MainBuildConfig ==
  /\ pc = "build_config"
  /\ config' \in [log_current : BOOLEAN, log_power : BOOLEAN,
                  log_energy : BOOLEAN, log_indefinitely : BOOLEAN,
                  log_count : 0..MaxLogs]
  /\ log_i' = 0
  /\ Goto(IF LogsEnabled(config') THEN "log_loop" ELSE "hid_exit")
  /\ UNCHANGED args

\* for (...; config.log_indefinitely || i < config.log_count; ...)
\* The model follows at most MaxLogs iterations of an indefinite loop.
LogStatsLoop ==
  /\ pc = "log_loop"
  /\ config.log_indefinitely => log_i < MaxLogs
  /\ Goto(IF config.log_indefinitely \/ log_i < config.log_count
          THEN "log_current" ELSE "hid_exit")
  /\ UNCHANGED <<args, config, log_i>>

\* if (config.log_current || config.log_power) { int16_t current;
\*   if (device.GetInstantaneousCurrent(&current)) ... else CleanupAndAbort(); }
LogStatsCurrent ==
  /\ pc = "log_current"
  /\ IF config.log_current \/ config.log_power
     THEN GetInstantaneousCurrent(FALSE) /\ pc' = AfterCall("log_energy")
     ELSE Goto("log_energy")
  /\ UNCHANGED <<args, config, log_i>>

\* if (config.log_energy) { int32_t milliamp_minutes;
\*   if (device.GetAccumulatedCharge(&milliamp_minutes)) ... else CleanupAndAbort(); }
LogStatsEnergy ==
  /\ pc = "log_energy"
  /\ IF config.log_energy
     THEN GetAccumulatedCharge(FALSE) /\ pc' = AfterCall("log_sleep")
     ELSE Goto("log_sleep")
  /\ UNCHANGED <<args, config, log_i>>

\* if (...) usleep(config.interval_us); and the loop's i++.
LogStatsSleep ==
  /\ pc = "log_sleep"
  /\ log_i' = log_i + 1
  /\ Goto("log_loop")
  /\ UNCHANGED <<args, config>>

\* hid_exit(); at the end of main().
MainHidExit ==
  /\ pc = "hid_exit"
  /\ history' = Append(history, "hid_exit")
  /\ pc' = "return"
  /\ UNCHANGED <<device_, NDEBUG, phase, calls, last, args, config, log_i>>

\* return 0; the local `device` goes out of scope and its destructor runs.
MainReturn ==
  /\ pc = "return"
  /\ Destructor
  /\ pc' = "exited"
  /\ UNCHANGED <<args, config, log_i>>

NextMain ==
  \/ MainCheckOutletArgs
  \/ MainCheckDefaultArgs
  \/ MainConstruct
  \/ MainCheckInitialized
  \/ MainPrintDeviceType
  \/ MainResetChargeAccumulator
  \/ MainDefaultEnable
  \/ MainDefaultDisable
  \/ MainEnable
  \/ MainDisable
  \/ MainBuildConfig
  \/ LogStatsLoop
  \/ LogStatsCurrent
  \/ LogStatsEnergy
  \/ LogStatsSleep
  \/ MainHidExit
  \/ MainReturn
  \/ CleanupAndAbort

MainSpec == InitMain /\ [][NextMain]_vars

----------------------------------------------------------------------------
(* Vocabulary of the properties. *)

Failure == {"false", "nullptr"}
SetOps == {"SetSocketState", "SetDefaultSocketState"}
QueryOps == {"GetDeviceType", "GetInstantaneousCurrent", "GetAccumulatedCharge"}

Count(seq, x) == Cardinality({i \in DOMAIN seq : seq[i] = x})

\* The last call made exactly one HIDAPI call, a hid_write of the one byte b.
WroteOnly(b) ==
  /\ Len(last.io) = 1
  /\ last.io[1].fn = "hid_write"
  /\ last.io[1].buf = <<b>>

\* The last call's result is the report of its one write: true unless
\* hid_write returned the error value -1.
ResultIsWriteResult ==
  /\ last.ret \in {"true", "false"}
  /\ last.ret = "true" <=> last.io[1].ret /= -1

\* The last call wrote the one byte cmd in full and then read len bytes in full.
FullExchange(op, len) ==
  /\ IsInitialized
  /\ last.op = op
  /\ Len(last.io) = 2
  /\ last.io[1].fn = "hid_write" /\ last.io[1].ret = 1
  /\ last.io[2].fn = "hid_read" /\ last.io[2].len = len
  /\ last.io[2].ret = len

----------------------------------------------------------------------------
(* C1: on a session whose open found no device (device_ is null), every    *)
(* method call returns failure and makes no hid_write or hid_read call.    *)
(* The code has no IsInitialized() test in any method: each one passes the *)
(* null handle to hid_write.                                               *)
C1_UninitializedCallsNoTransport ==
  (~IsInitialized /\ last.op /= "none")
    => (last.io = << >> /\ last.ret \in Failure)

----------------------------------------------------------------------------
(* C2, as claimed: for every outlet index >= 3 and either state,           *)
(* SetSocketState and SetDefaultSocketState make no hid_write call and     *)
(* return failure to the caller.                                           *)
C2_OutOfRangeReturnsFailure ==
  (last.op \in SetOps /\ last.index >= 3)
    => (last.io = << >> /\ last.ret = "false")

(* C2, amended: for every outlet index >= 3 and either state, both methods *)
(* make no HIDAPI call; in a build with NDEBUG they return false, and in a *)
(* build without it the assert aborts the process inside the call.         *)
C2_OutOfRangeNoWrite ==
  (last.op \in SetOps /\ last.index >= 3)
    => /\ last.io = << >>
       /\ NDEBUG => last.ret = "false" /\ phase /= "aborted"
       /\ ~NDEBUG => last.ret = "noreturn" /\ phase = "aborted"

C2_Witness ==
  /\ IsInitialized /\ NDEBUG
  /\ last.op = "SetDefaultSocketState" /\ last.index = 3 /\ last.state = "On"
  /\ last.ret = "false"
  /\ Count(history, "hid_write") = 1

----------------------------------------------------------------------------
(* C3: on an initialized session, SetSocketState(i, On) for i = 0, 1, 2    *)
(* writes exactly the one byte 0x41, 0x43, 0x45 and SetSocketState(i, Off) *)
(* exactly the one byte 0x42, 0x44, 0x50; nothing else is written,         *)
(* nothing is read, and the call returns true exactly when hid_write did   *)
(* not report an error.                                                    *)
C3_SetSocketStateBytes ==
  (IsInitialized /\ last.op = "SetSocketState" /\ last.index < 3)
    => /\ WroteOnly(CASE last.state = "On" /\ last.index = 0 -> 65
                      [] last.state = "On" /\ last.index = 1 -> 67
                      [] last.state = "On" /\ last.index = 2 -> 69
                      [] last.state = "Off" /\ last.index = 0 -> 66
                      [] last.state = "Off" /\ last.index = 1 -> 68
                      [] last.state = "Off" /\ last.index = 2 -> 80)
       /\ ResultIsWriteResult

C3_Witness ==
  /\ IsInitialized
  /\ last.op = "SetSocketState" /\ last.index = 2 /\ last.state = "Off"
  /\ WroteOnly(80) /\ last.io[1].ret = 1 /\ last.ret = "true"

----------------------------------------------------------------------------
(* C4: on an initialized session, SetDefaultSocketState(i, On) for         *)
(* i = 0, 1, 2 writes exactly the one byte 0x4E, 0x47, 0x4F and            *)
(* SetDefaultSocketState(i, Off) exactly the one byte 0x46, 0x51, 0x48;    *)
(* nothing else is written, nothing is read, and the call returns true     *)
(* exactly when hid_write did not report an error.                         *)
C4_SetDefaultSocketStateBytes ==
  (IsInitialized /\ last.op = "SetDefaultSocketState" /\ last.index < 3)
    => /\ WroteOnly(CASE last.state = "On" /\ last.index = 0 -> 78
                      [] last.state = "On" /\ last.index = 1 -> 71
                      [] last.state = "On" /\ last.index = 2 -> 79
                      [] last.state = "Off" /\ last.index = 0 -> 70
                      [] last.state = "Off" /\ last.index = 1 -> 81
                      [] last.state = "Off" /\ last.index = 2 -> 72)
       /\ ResultIsWriteResult

C4_Witness ==
  /\ IsInitialized
  /\ last.op = "SetDefaultSocketState" /\ last.index = 1 /\ last.state = "On"
  /\ WroteOnly(71) /\ last.io[1].ret = -1 /\ last.ret = "false"

----------------------------------------------------------------------------
(* C5: GetDeviceType, after writing 0xAA and reading one byte r in full,   *)
(* returns Basic for r = 1, Digital IO for r = 2, Watchdog for r = 3,      *)
(* Smart for r = 4, and failure (nullptr) for every other r, 0 included.   *)
C5_DeviceTypeDecoding ==
  FullExchange("GetDeviceType", 1)
    => /\ last.io[1].buf = <<170>>
       /\ LET r == last.io[2].buf[1]
          IN  last.ret = CASE r = 1 -> "Basic"
                           [] r = 2 -> "Digital IO"
                           [] r = 3 -> "Watchdog"
                           [] r = 4 -> "Smart"
                           [] OTHER -> "nullptr"

C5_Witness ==
  /\ FullExchange("GetDeviceType", 1)
  /\ last.io[2].buf = <<0>>
  /\ last.ret = "nullptr"

----------------------------------------------------------------------------
(* C6: GetInstantaneousCurrent, after writing 0xB1 and reading two bytes   *)
(* [b0, b1] in full, returns true for every pair and stores b0*256 + b1    *)
(* read as a two's-complement 16-bit integer: a value v in -32768..32767   *)
(* congruent to b0*256 + b1 modulo 2^16, negative exactly when b0 >= 0x80. *)
C6_CurrentDecoding ==
  FullExchange("GetInstantaneousCurrent", 2)
    => /\ last.io[1].buf = <<177>>
       /\ last.ret = "true"
       /\ Len(last.out) = 1
       /\ LET b == last.io[2].buf
              v == last.out[1]
          IN  /\ v \in -32768..32767
              /\ v % 65536 = b[1] * 256 + b[2]
              /\ v < 0 <=> b[1] >= 128

C6_Witness ==
  /\ FullExchange("GetInstantaneousCurrent", 2)
  /\ last.io[2].buf = <<255, 255>>
  /\ last.ret = "true"
  /\ last.out = <<-1>>

----------------------------------------------------------------------------
(* C7: GetAccumulatedCharge, after writing 0xB2 and reading four bytes     *)
(* [b0, b1, b2, b3] in full, returns true for every combination and stores *)
(* the 32-bit two's-complement integer whose bytes, most significant       *)
(* first, are b0, b1, b2, b3; it is negative exactly when b0 >= 0x80.      *)
C7_ChargeDecoding ==
  FullExchange("GetAccumulatedCharge", 4)
    => /\ last.io[1].buf = <<178>>
       /\ last.ret = "true"
       /\ Len(last.out) = 1
       /\ LET b == last.io[2].buf
              v == last.out[1]
          IN  /\ v % 256 = b[4]
              /\ (v \div 256) % 256 = b[3]
              /\ (v \div 65536) % 256 = b[2]
              /\ (v \div 16777216) % 256 = b[1]
              /\ v < 0 <=> b[1] >= 128

C7_Witness ==
  /\ FullExchange("GetAccumulatedCharge", 4)
  /\ last.io[2].buf = <<128, 1, 255, 1>>
  /\ last.ret = "true"
  /\ last.out = <<-2147483647 + 65536 + 65280>>

----------------------------------------------------------------------------
(* C8: whenever hid_write or hid_read reports an error or a short transfer *)
(* (fewer bytes than the 1 byte written or the 1, 2 or 4 bytes asked for), *)
(* the method call in progress returns failure and delivers no decoded     *)
(* value.  DeviceWrite and DeviceRead test only for -1, so a short count   *)
(* is taken as success and the bytes never received are decoded.           *)
C8_ShortTransferIsFailure ==
  IsInitialized
    => \A i \in DOMAIN last.io :
         last.io[i].ret < last.io[i].len
           => (last.ret \in Failure /\ last.out = << >>)

----------------------------------------------------------------------------
(* C9, as claimed: every method call on an initialized session makes       *)
(* exactly one hid_write call; the queries make at most one hid_read call, *)
(* after that write and only if the write did not fail; no call is         *)
(* repeated.                                                               *)
OneWriteThenAtMostOneRead ==
  /\ Len(last.io) \in {1, 2}
  /\ last.io[1].fn = "hid_write"
  /\ Len(last.io) = 2
       => /\ last.io[2].fn = "hid_read"
          /\ last.op \in QueryOps
          /\ last.io[1].ret /= -1

C9_ExactlyOneWrite ==
  (IsInitialized /\ last.op /= "none") => OneWriteThenAtMostOneRead

\* The call was refused for its arguments: an outlet index >= 3, or a null
\* output pointer.
ArgumentsRefused ==
  \/ last.op \in SetOps /\ last.index >= 3
  \/ last.argNull

(* C9, amended: every method call on an initialized session whose          *)
(* arguments are accepted (outlet index < 3, output pointer not null)      *)
(* makes exactly one hid_write call; the queries make at most one hid_read *)
(* call, after that write and only if the write did not fail; no call is   *)
(* repeated.  A call whose arguments are refused makes no HIDAPI call.     *)
C9_OneWriteUnlessRefused ==
  (IsInitialized /\ last.op /= "none")
    => IF ArgumentsRefused THEN last.io = << >>
       ELSE OneWriteThenAtMostOneRead

C9_Witness ==
  /\ IsInitialized
  /\ last.op = "GetAccumulatedCharge" /\ ~last.argNull
  /\ Len(last.io) = 2
  /\ last.io[1].fn = "hid_write" /\ last.io[1].ret = 1
  /\ last.io[2].fn = "hid_read" /\ last.io[2].ret = -1
  /\ last.ret = "false"
  /\ history = <<"hid_open", "hid_write", "hid_write", "hid_read">>

----------------------------------------------------------------------------
(* C10: over the lifetime of a session hid_close is called exactly once if *)
(* hid_open gave a handle and never if it did not; it is never called      *)
(* twice, it is called by the destructor alone, and no hid_write or        *)
(* hid_read follows it.                                                    *)
C10_CloseExactlyOnce ==
  /\ Count(history, "hid_close") <= 1
  /\ ~IsInitialized => Count(history, "hid_close") = 0
  /\ phase = "destroyed" /\ IsInitialized => Count(history, "hid_close") = 1
  /\ phase /= "destroyed" => Count(history, "hid_close") = 0
  /\ \A i, j \in DOMAIN history :
       (history[i] = "hid_close" /\ i < j)
         => history[j] \notin {"hid_write", "hid_read"}

C10_Witness ==
  /\ IsInitialized
  /\ phase = "destroyed"
  /\ history = <<"hid_open", "hid_write", "hid_read", "hid_write", "hid_close">>

----------------------------------------------------------------------------
(* C11: in every run of the program hid_exit is called exactly once, and   *)
(* only after the opened device session has been closed; no hid_write,     *)
(* hid_read or hid_close follows it.  main() calls hid_exit() while its    *)
(* local `device` is still alive: the destructor's hid_close comes after   *)
(* it, and on the CleanupAndAbort() paths exit() skips the destructor, so  *)
(* the session is never closed.                                            *)
C11_ShutdownOnceAfterClose ==
  /\ Count(history, "hid_exit") <= 1
  /\ pc = "exited" => Count(history, "hid_exit") = 1
  /\ \A i \in DOMAIN history :
       history[i] = "hid_exit"
         => /\ IsInitialized => \E j \in 1..(i - 1) : history[j] = "hid_close"
            /\ \A j \in (i + 1)..Len(history) :
                 history[j] \notin {"hid_write", "hid_read", "hid_close"}

----------------------------------------------------------------------------
(* C12: ResetChargeAccumulator on an initialized session writes exactly    *)
(* the one byte 0xB3, reads nothing, and returns true exactly when that    *)
(* hid_write did not report an error; every call of it, the second of two  *)
(* in succession included, adds one hid_write of its own to the HIDAPI     *)
(* calls made and leaves the session's state (device_, its being alive)    *)
(* as it was.                                                              *)
C12_ResetChargeAccumulator ==
  /\ [](IsInitialized /\ last.op = "ResetChargeAccumulator"
          => WroteOnly(179) /\ ResultIsWriteResult)
  /\ [][(IsInitialized /\ calls' = calls + 1
           /\ last'.op = "ResetChargeAccumulator")
          => /\ device_' = device_
             /\ phase' = phase
             /\ history' = Append(history, "hid_write")]_vars

\* A second ResetChargeAccumulator in succession succeeds on its own write,
\* whatever the first did.
C12_Witness ==
  /\ IsInitialized
  /\ calls = 2
  /\ history = <<"hid_open", "hid_write", "hid_write">>
  /\ last.op = "ResetChargeAccumulator"
  /\ WroteOnly(179) /\ last.io[1].ret = 1 /\ last.ret = "true"

----------------------------------------------------------------------------
(* C13: when the tool is run with --outlet_default_enable N (respectively  *)
(* --outlet_default_disable N), N in {0, 1, 2}, the SetDefaultSocketState  *)
(* call it makes has outlet index N, the value of that same argument, and  *)
(* state On (respectively Off), whether or not --outlet_enable or          *)
(* --outlet_disable is given.  main() takes the index from                 *)
(* outlet_enable_arg (respectively outlet_disable_arg) instead.            *)
C13_DefaultStateTargetsGivenIndex ==
  (InProgram /\ last.op = "SetDefaultSocketState")
    => LET given == IF last.state = "On" THEN args.outlet_default_enable
                                         ELSE args.outlet_default_disable
       IN  /\ given.set
           /\ given.value \in 0..2 => last.index = given.value

====
